---- MODULE Spec2Model ----
(***************************************************************************)
(* Model of finetune_gpt2.py: the finetune() driver, the _train() epoch    *)
(* loop, the sharded data loader and the infinite validation loader.       *)
(*                                                                         *)
(* Conventions                                                             *)
(*   - an interval equal to 0 stands for an unset (None) or zero interval: *)
(*     both are falsy in `args.x and ...` and both raise in `n % args.x`;  *)
(*   - a module handle is a record: a wrapper has fields kind, module; the *)
(*     raw task module has fields kind, model;                             *)
(*   - events is a history of the collaborator calls made so far.          *)
(*                                                                         *)
(* Specifications                                                          *)
(*   Spec        a whole run of finetune();                                *)
(*   SpecTrain   _train() from its entry, over wider training setups;      *)
(*   SpecWorkers the data-parallel workers, each running _train();         *)
(*   SpecShard   the replicas' samplers and loaders;                       *)
(*   SpecCycler  the infinite validation loader.                           *)
(***************************************************************************)
EXTENDS Integers, Sequences, FiniteSets, TLC

\* ------------------------------------------------------------------ bounds
\* Training configurations of whole runs of finetune (Spec) ...
RunMaxEpochs == 1
RunMaxTrainLen == 4
RunMaxInterval == 1
\* ... and of runs of _train from its entry (SpecTrain).
MaxEpochs == 2
MaxTrainLen == 4
MaxInterval == 2
MaxLoss == 1
MaxCkptIter == 1
MaxSeed == 1
\* Configurations of the data-parallel workers (SpecWorkers).
MaxWorkers == 2
WorkerMaxLen == 3
WorkerMaxBatch == 2
WorkerMaxEpochs == 2
WorkerMaxInterval == 2
DataParallelWorldSize == 2
BatchSize == 1
MaxShardLen == 4
MaxWorld == 3
MaxBatch == 2
MaxStreamLen == 3
MaxBatchId == 2
RebuildCap == 2

VARIABLES
    args,                   \* the shared configuration namespace
    provider,               \* end_of_epoch_callback_provider is not None
    train_dataset,          \* size of the training dataset the provider returns
    pc,                     \* position in finetune() / _train()
    train_dataloader,       \* [built, len]
    valid_dataloader,       \* [built]
    end_of_epoch_callback,  \* TRUE iff not None
    model,                  \* handle returned by setup_model_and_optimizer
    loaded_module,          \* module handed to load_checkpoint
    checkpoint_iteration,   \* iteration recorded in the loaded checkpoint
    epoch,                  \* _train: loop variable of the epoch loop
    iteration_,             \* _train: enumerate index of the current batch
    start_epoch,            \* _train local
    start_iteration,        \* _train local
    total_lm_loss,          \* _train local
    skipped_iter,           \* _train local: second result of train_step
    avg_lm_loss,            \* _train local: [num, den] of the last report
    losses,                 \* losses train_step has returned, in step order
    sampler_epoch,          \* train_dataloader.sampler.epoch
    events,                 \* history of collaborator calls
    sh_dataset,             \* sampler: dataset size
    sh_world,               \* sampler: number of replicas
    sh_batch,               \* loader: batch size
    sh_perm,                \* sampler: this epoch's permutation of the indices
    sh_batches,             \* per rank: the batches its loader yields
    sh_done,                \* ranks whose loader has been iterated
    cy_stream,              \* cycler: batches of one pass of the finite loader
    cy_started,             \* cycler: the generator body has been entered
    cy_pos,                 \* cycler: batches consumed from the current iterator
    cy_pc,                  \* cycler: "idle", "running" or "raised"
    cy_rebuilds,            \* cycler: iterator rebuilds within the current draw
    cy_out,                 \* cycler: batches yielded so far
    wk_config,              \* workers: the configuration they all share
    wk                      \* workers: per rank, the state of its _train

finetuneVars == <<args, provider, train_dataset, pc, train_dataloader,
                  valid_dataloader, end_of_epoch_callback, model,
                  loaded_module, checkpoint_iteration, epoch, iteration_,
                  start_epoch, start_iteration, total_lm_loss, skipped_iter,
                  avg_lm_loss, losses, sampler_epoch, events>>
shardVars == <<sh_dataset, sh_world, sh_batch, sh_perm, sh_batches, sh_done>>
cyclerVars == <<cy_stream, cy_started, cy_pos, cy_pc, cy_rebuilds, cy_out>>
workerVars == <<wk_config, wk>>
vars == <<finetuneVars, shardVars, cyclerVars, workerVars>>

\* ------------------------------------------------------------ module handles
NoModule == [kind |-> "none"]
InnerModel == [kind |-> "GLMModel"]
RawModule == [kind |-> "raw", model |-> InnerModel]
LocalDDP(m) == [kind |-> "LocalDDP", module |-> m]
TorchDDP(m) == [kind |-> "TorchDDP", module |-> m]
FP16_Module(m) == [kind |-> "FP16_Module", module |-> m]

\* Handles setup_model_and_optimizer can return: the raw module under an
\* optional precision wrapper under an optional replication wrapper.
ModelHandles ==
    LET inner == {RawModule, FP16_Module(RawModule)}
    IN  inner \cup {LocalDDP(m) : m \in inner} \cup {TorchDDP(m) : m \in inner}

\* finetune, lines 226-230: strip the replication wrapper, then the
\* precision wrapper.
UnwrapDDP(m) == IF m.kind \in {"LocalDDP", "TorchDDP"} THEN m.module ELSE m
UnwrapFP16(m) == IF m.kind = "FP16_Module" THEN m.module ELSE m
\* Variant: the two isinstance tests in the opposite order.
ResolveModule_PrecisionFirst(m) == UnwrapDDP(UnwrapFP16(m))
ResolveModule(m) == UnwrapFP16(UnwrapDDP(m))
\* finetune, line 231: `module.model`, the first argument of
\* load_checkpoint; the attribute lookup raises on a module without it.
HasModelAttr(m) == "model" \in DOMAIN m
LoadTarget(m) == ResolveModule(m).model

\* --------------------------------------------------------------- data loader
CeilDiv(a, b) == (a + b - 1) \div b
\* DistributedSampler(dataset, num_replicas, rank): samples per replica.
SamplerNumSamples(n, world) == CeilDiv(n, world)
\* len(DataLoader(..., batch_size, sampler, drop_last)).
build_data_loader(n, batch_size, drop_last) ==
    LET num_samples == SamplerNumSamples(n, DataParallelWorldSize)
    IN  [built |-> TRUE,
         len |-> IF drop_last THEN num_samples \div batch_size
                 ELSE CeilDiv(num_samples, batch_size)]

\* Variant: the loaders are asked to drop an undersized last batch.
TrainDropLast_True == TRUE
\* _build_train_valid_dataloaders, lines 115 and 121-122: the drop_last
\* argument of build_data_loader.
TrainDropLast == FALSE

NoLoader == [built |-> FALSE, len |-> 0]

\* ------------------------------------------------------------------- events
\* An event records the call, the epoch and intra-epoch index it was made
\* in, and the value of args.iteration at the call.
Ev(op, e, idx, it) == [op |-> op, epoch |-> e, index |-> idx, iteration |-> it]
Emit(op) == events' = Append(events, Ev(op, epoch, iteration_, args.iteration))

\* ------------------------------------------------ decisions taken by the code
\* Variant: the test admits a zero epoch count.
TrainingRequested_NonNegative(a) == a.epochs >= 0
\* finetune, lines 203 and 245.
TrainingRequested(a) == a.epochs > 0
\* Variant: the refresh is not tied to reduced precision.
NeedsMasterSync_Always(a) == TRUE
\* finetune, line 234.
NeedsMasterSync(a) == a.fp16
\* Variant: the per-epoch count is taken from the whole dataset, not from
\* this replica's loader.
ItersPerEpoch_Unsharded(n, batch_size) == CeilDiv(n, batch_size)
\* _build_train_valid_dataloaders, lines 115-117: len(train_dataloader).
ItersPerEpoch(n, batch_size) ==
    build_data_loader(n, batch_size, TrainDropLast).len
SamplerSeed_NoEpoch(seed, e) == seed
\* _train, line 148: the argument of sampler.set_epoch.
SamplerSeed(seed, e) == seed + e
SkipBatch_Inclusive(index, start) == index <= start
\* _train, lines 154-155: the batch with this index is passed over.
SkipBatch(index, start) == index < start
\* _train, line 162.
NextIteration(it) == it + 1
Accumulate_Overwrite(total, lm_loss, skipped) == lm_loss
\* _train, line 163: the accumulator after a step that returned
\* (lm_loss, skipped).
Accumulate(total, lm_loss, skipped) == total + lm_loss
\* _train, line 166 (log_interval is known to be a non-zero number here).
ShouldLog(a) == a.iteration % a.log_interval = 0
\* _train, line 176.
ShouldSave(a) ==
    a.save /\ a.save_interval # 0 /\ a.iteration % a.save_interval = 0
\* Variant: the evaluation test reads the save interval.
ShouldEval_SaveInterval(a) ==
    a.save_interval # 0 /\ a.iteration % a.save_interval = 0
\* _train, line 180.
ShouldEval(a) == a.eval_interval # 0 /\ a.iteration % a.eval_interval = 0
\* Variant: no forced save when the interval save has just been made.
ShouldSaveAtEpochEnd_UnlessSaved(a) == a.save /\ ~ShouldSave(a)
\* _train, line 186.
ShouldSaveAtEpochEnd(a) == a.save
\* Variant: the callback is handed the 1-based epoch number of line 145.
CallbackEpoch_OneBased(e) == e + 1
\* _train, line 191: the epoch index handed to the callback.
CallbackEpoch(e) == e

Intervals == 0..MaxInterval
RunIntervals == 0..RunMaxInterval
\* Losses train_step returns: zero and a non-zero value.
Losses == {0, MaxLoss}

\* ----------------------------------------------------- sharded data loader
Min(a, b) == IF a < b THEN a ELSE b

\* The orderings torch.randperm can produce for a dataset of n elements.
Perms(n) ==
    {p \in [1..n -> 0..(n - 1)] : \A i, j \in 1..n : i # j => p[i] # p[j]}

\* Variant: the permutation is not padded; a rank takes every world-th
\* index of it starting at its own.
SamplerIndices_Unpadded(perm, world, rank) ==
    LET n == Len(perm)
        count == (n - rank + world - 1) \div world
    IN  [k \in 1..count |-> perm[rank + (k - 1) * world + 1]]
\* build_data_loader, lines 85-86: DistributedSampler.__iter__ for one rank
\* with the sampler's default drop_last=False: the permutation is padded
\* with its own head up to a multiple of the number of replicas, then every
\* world-th index starting at rank is taken.
SamplerIndices(perm, world, rank) ==
    LET n == Len(perm)
        num_samples == SamplerNumSamples(n, world)
        total_size == num_samples * world
        padded == [i \in 1..total_size |-> perm[((i - 1) % n) + 1]]
    IN  [k \in 1..num_samples |-> padded[rank + (k - 1) * world + 1]]

\* build_data_loader, lines 89-95: DataLoader groups the sampler's indices
\* into consecutive batches and drops an undersized tail iff drop_last.
LoaderBatches(indices, batch_size, drop_last) ==
    LET len == Len(indices)
        count == IF drop_last THEN len \div batch_size
                 ELSE CeilDiv(len, batch_size)
    IN  [k \in 1..count |->
            SubSeq(indices, (k - 1) * batch_size + 1, Min(k * batch_size, len))]

ShardIdle ==
    /\ sh_dataset = 0
    /\ sh_world = 1
    /\ sh_batch = 1
    /\ sh_perm = <<>>
    /\ sh_batches = [r \in 0..0 |-> <<>>]
    /\ sh_done = {}

ShardStart ==
    /\ sh_dataset \in 0..MaxShardLen
    /\ sh_world \in 1..MaxWorld
    /\ sh_batch \in 1..MaxBatch
    /\ sh_perm \in Perms(sh_dataset)
    /\ sh_batches = [r \in 0..(sh_world - 1) |-> <<>>]
    /\ sh_done = {}

\* build_data_loader, lines 83-97, on the replica of the given rank, and one
\* pass over the loader it returns.
ShardIterate(rank) ==
    /\ rank \notin sh_done
    /\ sh_batches' = [sh_batches EXCEPT ![rank] =
            LoaderBatches(SamplerIndices(sh_perm, sh_world, rank), sh_batch,
                          TrainDropLast)]
    /\ sh_done' = sh_done \cup {rank}
    /\ UNCHANGED <<sh_dataset, sh_world, sh_batch, sh_perm>>

\* ------------------------------------------------------ data-parallel workers
WorkersIdle ==
    /\ wk_config = [epochs |-> 0, batch_size |-> 1, log_interval |-> 0,
                    save_interval |-> 0, eval_interval |-> 0, save |-> FALSE,
                    world |-> 1, dataset |-> 0]
    /\ wk = [r \in 0..0 |-> [pc |-> "idle"]]

WorkerRanks == 0..(wk_config.world - 1)
\* The ordering of the epoch: every worker seeds its sampler with the same
\* seed + epoch (line 148), so all of them shard the same ordering.
WorkerPerm == [i \in 1..wk_config.dataset |-> i - 1]
\* The args of the worker of rank r, as the interval tests read them.
WorkerArgs(r) ==
    [iteration |-> wk[r].iteration,
     log_interval |-> wk_config.log_interval,
     save_interval |-> wk_config.save_interval,
     eval_interval |-> wk_config.eval_interval,
     save |-> wk_config.save]
Fired(op, r) == [op |-> op, iteration |-> wk[r].iteration]

WorkersStart ==
    /\ \E ep \in 1..WorkerMaxEpochs, b \in 1..WorkerMaxBatch,
          li \in 0..WorkerMaxInterval, si \in 0..WorkerMaxInterval,
          ei \in 0..WorkerMaxInterval, sv \in BOOLEAN,
          w \in 1..MaxWorkers, n \in 1..WorkerMaxLen :
          wk_config = [epochs |-> ep, batch_size |-> b, log_interval |-> li,
                       save_interval |-> si, eval_interval |-> ei,
                       save |-> sv, world |-> w, dataset |-> n]
    /\ wk = [r \in WorkerRanks |->
                [pc |-> "build", epoch |-> 0, iteration_ |-> -1,
                 iteration |-> 0, train_iters_per_epoch |-> 0,
                 entered |-> 0, fired |-> {}]]

\* The gradient all-reduce inside train_step: the k-th reduction completes
\* on a worker once every worker has joined its own k-th reduction.
AllReduceReady(r) ==
    \A q \in WorkerRanks : wk[q].entered >= wk[r].entered

\* _build_train_valid_dataloaders, lines 114-118, and _train, lines 136-140,
\* on the worker of rank r.
WorkerBuild(r) ==
    /\ wk[r].pc = "build"
    /\ LET len == Len(LoaderBatches(
                         SamplerIndices(WorkerPerm, wk_config.world, r),
                         wk_config.batch_size, TrainDropLast))
       IN  wk' = [wk EXCEPT ![r].train_iters_per_epoch = len,
                            ![r].pc = IF len = 0 THEN "error"  \* line 139
                                      ELSE "epoch_head"]
    /\ UNCHANGED wk_config

\* _train, lines 144-148.
WorkerEpochHead(r) ==
    /\ wk[r].pc = "epoch_head"
    /\ wk' = IF wk[r].epoch < wk_config.epochs
             THEN [wk EXCEPT ![r].iteration_ = -1, ![r].pc = "batch"]
             ELSE [wk EXCEPT ![r].pc = "done"]
    /\ UNCHANGED wk_config

\* _train, lines 151-161: the worker draws its next batch (its skip offset
\* is 0, lines 136 and 140) and enters train_step, where it joins the
\* gradient all-reduce of the step.
WorkerNextBatch(r) ==
    /\ wk[r].pc = "batch"
    /\ wk' = IF wk[r].iteration_ + 1 < wk[r].train_iters_per_epoch
             THEN [wk EXCEPT ![r].iteration_ = @ + 1,
                             ![r].entered = @ + 1,
                             ![r].pc = "all_reduce"]
             ELSE [wk EXCEPT ![r].pc = "epoch_end"]
    /\ UNCHANGED wk_config

\* _train, lines 160-162: train_step returns once the all-reduce is done.
WorkerStep(r) ==
    /\ wk[r].pc = "all_reduce"
    /\ AllReduceReady(r)
    /\ wk' = [wk EXCEPT ![r].iteration = NextIteration(@),
                        ![r].pc = "intervals"]
    /\ UNCHANGED wk_config

\* _train, lines 166-183.
WorkerIntervals(r) ==
    /\ wk[r].pc = "intervals"
    /\ IF wk_config.log_interval = 0
       THEN wk' = [wk EXCEPT ![r].pc = "error"]          \* line 166
       ELSE LET a == WorkerArgs(r)
                new == (IF ShouldLog(a) THEN {Fired("log", r)} ELSE {})
                       \cup (IF ShouldSave(a) THEN {Fired("save", r)} ELSE {})
                       \cup (IF ShouldEval(a) THEN {Fired("eval", r)} ELSE {})
            IN  wk' = [wk EXCEPT ![r].fired = @ \cup new,
                                 ![r].pc = "batch"]
    /\ UNCHANGED wk_config

\* _train, lines 186-191, then the epoch loop advances.
WorkerEpochEnd(r) ==
    /\ wk[r].pc = "epoch_end"
    /\ LET new == IF ShouldSaveAtEpochEnd(WorkerArgs(r))
                  THEN {Fired("save_epoch", r)} ELSE {}
       IN  wk' = [wk EXCEPT ![r].fired = @ \cup new,
                            ![r].epoch = @ + 1,
                            ![r].pc = "epoch_head"]
    /\ UNCHANGED wk_config

\* ------------------------------------------------ infinite validation loader
Streams == UNION {[1..l -> 1..MaxBatchId] : l \in 0..MaxStreamLen}
MaxDraws == 3 * MaxStreamLen

CyclerIdle ==
    /\ cy_stream = <<>>
    /\ cy_started = FALSE
    /\ cy_pos = 0
    /\ cy_pc = "idle"
    /\ cy_rebuilds = 0
    /\ cy_out = <<>>

CyclerStart ==
    /\ cy_stream \in Streams
    /\ cy_started = FALSE
    /\ cy_pos = 0
    /\ cy_pc = "idle"
    /\ cy_rebuilds = 0
    /\ cy_out = <<>>

\* Variant: the exhausted iterator is kept instead of a fresh one.
OnExhausted_KeepIterator(pos) == [pc |-> "running", pos |-> pos]
\* Variant: StopIteration is not caught.
OnExhausted_Propagate(pos) == [pc |-> "raised", pos |-> pos]
\* _build_infinite_size_dataloader, lines 107-108: what the generator does
\* when the wrapped iterator is exhausted.
OnExhausted(pos) == [pc |-> "running", pos |-> 0]

\* The caller asks the generator for its next batch; the first request
\* enters the generator body (line 103).
CyclerDraw ==
    /\ cy_pc = "idle"
    /\ Len(cy_out) < MaxDraws
    /\ cy_pc' = "running"
    /\ cy_rebuilds' = 0
    /\ cy_started' = TRUE
    /\ cy_pos' = IF cy_started THEN cy_pos ELSE 0
    /\ UNCHANGED <<cy_stream, cy_out>>

\* _build_infinite_size_dataloader, line 106: the iterator has a batch.
CyclerYield ==
    /\ cy_pc = "running"
    /\ cy_pos < Len(cy_stream)
    /\ cy_out' = Append(cy_out, cy_stream[cy_pos + 1])
    /\ cy_pos' = cy_pos + 1
    /\ cy_pc' = "idle"
    /\ UNCHANGED <<cy_stream, cy_started, cy_rebuilds>>

\* _build_infinite_size_dataloader, lines 106-108: the iterator raises
\* StopIteration.
CyclerExhausted ==
    /\ cy_pc = "running"
    /\ cy_pos >= Len(cy_stream)
    /\ cy_pc' = OnExhausted(cy_pos).pc
    /\ cy_pos' = OnExhausted(cy_pos).pos
    /\ cy_rebuilds' = Min(cy_rebuilds + 1, RebuildCap)
    /\ UNCHANGED <<cy_stream, cy_started, cy_out>>

\* --------------------------------------------------------------------- Init
Init ==
    /\ \E ep \in 0..RunMaxEpochs, li \in RunIntervals, si \in RunIntervals,
          ei \in RunIntervals, sv \in BOOLEAN, ld \in BOOLEAN,
          fp \in BOOLEAN :
          args = [epochs |-> ep, batch_size |-> BatchSize,
                  log_interval |-> li, save_interval |-> si,
                  eval_interval |-> ei, save |-> sv, load |-> ld,
                  fp16 |-> fp, seed |-> MaxSeed, iteration |-> 0,
                  train_iters_per_epoch |-> 0, train_iters |-> 0]
    /\ provider \in BOOLEAN
    /\ train_dataset \in 0..RunMaxTrainLen
    /\ pc = "build_data"
    /\ train_dataloader = NoLoader
    /\ valid_dataloader = NoLoader
    /\ end_of_epoch_callback = FALSE
    /\ model = NoModule
    /\ loaded_module = NoModule
    /\ checkpoint_iteration = 0
    /\ epoch = 0
    /\ iteration_ = -1
    /\ start_epoch = 0
    /\ start_iteration = 0
    /\ total_lm_loss = 0
    /\ skipped_iter = 0
    /\ avg_lm_loss = [num |-> 0, den |-> 1]
    /\ losses = <<>>
    /\ sampler_epoch = 0
    /\ events = <<>>
    /\ ShardIdle
    /\ CyclerIdle
    /\ WorkersIdle

\* ------------------------------------------------------------ finetune steps
\* finetune, lines 202-207 with _build_train_valid_dataloaders, lines 111-125.
BuildDataloaders ==
    /\ pc = "build_data"
    /\ IF TrainingRequested(args)
       THEN LET loader == build_data_loader(train_dataset, args.batch_size,
                                                TrainDropLast)
                iters == ItersPerEpoch(train_dataset, args.batch_size)
            IN  /\ train_dataloader' = loader
                /\ valid_dataloader' = [built |-> TRUE, len |-> 0]
                /\ args' = [args EXCEPT
                       !.train_iters_per_epoch = iters,
                       !.train_iters = args.epochs * iters]
                /\ events' = Append(events, Ev("build_dataloaders", -1, -1, args.iteration))
       ELSE UNCHANGED <<train_dataloader, valid_dataloader, args, events>>
    /\ pc' = "build_callback"
    /\ UNCHANGED <<provider, train_dataset, end_of_epoch_callback, model,
                   loaded_module, checkpoint_iteration, epoch, iteration_,
                   start_epoch, start_iteration, total_lm_loss>>
    /\ UNCHANGED <<skipped_iter, avg_lm_loss, losses, sampler_epoch>>
    /\ UNCHANGED <<shardVars, cyclerVars, workerVars>>

\* finetune, lines 210-214.
BuildCallback ==
    /\ pc = "build_callback"
    /\ end_of_epoch_callback' = provider
    /\ pc' = "setup_model"
    /\ UNCHANGED <<args, provider, train_dataset, train_dataloader,
                   valid_dataloader, model, loaded_module,
                   checkpoint_iteration, epoch, iteration_, start_epoch,
                   start_iteration, total_lm_loss, events>>
    /\ UNCHANGED <<skipped_iter, avg_lm_loss, losses, sampler_epoch>>
    /\ UNCHANGED <<shardVars, cyclerVars, workerVars>>

\* finetune, lines 217-219.
SetupModel ==
    /\ pc = "setup_model"
    /\ model' \in ModelHandles
    /\ pc' = "load"
    /\ UNCHANGED <<args, provider, train_dataset, train_dataloader,
                   valid_dataloader, end_of_epoch_callback, loaded_module,
                   checkpoint_iteration, epoch, iteration_, start_epoch,
                   start_iteration, total_lm_loss, events>>
    /\ UNCHANGED <<skipped_iter, avg_lm_loss, losses, sampler_epoch>>
    /\ UNCHANGED <<shardVars, cyclerVars, workerVars>>

\* finetune, lines 224-236: no load path configured.
SkipLoad ==
    /\ pc = "load"
    /\ ~args.load
    /\ pc' = "dispatch"
    /\ UNCHANGED <<args, provider, train_dataset, train_dataloader,
                   valid_dataloader, end_of_epoch_callback, model,
                   loaded_module, checkpoint_iteration, epoch, iteration_,
                   start_epoch, start_iteration, total_lm_loss, events>>
    /\ UNCHANGED <<skipped_iter, avg_lm_loss, losses, sampler_epoch>>
    /\ UNCHANGED <<shardVars, cyclerVars, workerVars>>

\* finetune, lines 225-235: load_checkpoint returns the recorded iteration
\* (the return value is dropped), then the master parameters are refreshed
\* under fp16.
LoadCheckpoint ==
    /\ pc = "load"
    /\ args.load
    /\ HasModelAttr(ResolveModule(model))
    /\ loaded_module' = LoadTarget(model)
    /\ \E g \in 0..MaxCkptIter : checkpoint_iteration' = g
    /\ events' = events \o <<Ev("load_checkpoint", -1, -1, args.iteration)>>
                        \o (IF NeedsMasterSync(args)
                            THEN <<Ev("model_params_to_master_params", -1, -1,
                                      args.iteration)>>
                            ELSE <<>>)
    /\ pc' = "dispatch"
    /\ UNCHANGED <<args, provider, train_dataset, train_dataloader,
                   valid_dataloader, end_of_epoch_callback, model, epoch,
                   iteration_, start_epoch, start_iteration, total_lm_loss>>
    /\ UNCHANGED <<skipped_iter, avg_lm_loss, losses, sampler_epoch>>
    /\ UNCHANGED <<shardVars, cyclerVars, workerVars>>

\* finetune, line 231: load_checkpoint raises; the error propagates out of
\* finetune.
LoadCheckpointFails ==
    /\ pc = "load"
    /\ args.load
    /\ IF HasModelAttr(ResolveModule(model))
       THEN /\ loaded_module' = LoadTarget(model)
            /\ events' = Append(events, Ev("load_checkpoint_failed", -1, -1,
                                           args.iteration))
       ELSE \* line 231: AttributeError before load_checkpoint is called
            UNCHANGED <<loaded_module, events>>
    /\ pc' = "error"
    /\ UNCHANGED <<args, provider, train_dataset, train_dataloader,
                   valid_dataloader, end_of_epoch_callback, model,
                   checkpoint_iteration, epoch, iteration_, start_epoch,
                   start_iteration, total_lm_loss>>
    /\ UNCHANGED <<skipped_iter, avg_lm_loss, losses, sampler_epoch>>
    /\ UNCHANGED <<shardVars, cyclerVars, workerVars>>

\* finetune, lines 245-254: the evaluation-only branch.
EvaluateOnly ==
    /\ pc = "dispatch"
    /\ ~TrainingRequested(args)
    /\ IF end_of_epoch_callback
       THEN \* line 252: epoch=-1, output_predictions=True
            events' = Append(events, Ev("end_of_epoch_callback_predict", -1, -1,
                                        args.iteration))
       ELSE UNCHANGED events
    /\ pc' = "done"
    /\ UNCHANGED <<args, provider, train_dataset, train_dataloader,
                   valid_dataloader, end_of_epoch_callback, model,
                   loaded_module, checkpoint_iteration, epoch, iteration_,
                   start_epoch, start_iteration, total_lm_loss>>
    /\ UNCHANGED <<skipped_iter, avg_lm_loss, losses, sampler_epoch>>
    /\ UNCHANGED <<shardVars, cyclerVars, workerVars>>

\* --------------------------------------------------------------- _train steps
\* finetune, lines 245-247 and _train, lines 133-143.
TrainInit ==
    /\ pc = "dispatch"
    /\ TrainingRequested(args)
    /\ args' = [args EXCEPT !.iteration = 0]            \* line 136
    /\ total_lm_loss' = 0                               \* line 137
    /\ losses' = <<>>
    /\ IF args.train_iters_per_epoch = 0
       THEN \* line 139: integer division by zero
            /\ pc' = "error"
            /\ UNCHANGED <<start_epoch, start_iteration, epoch, events>>
       ELSE /\ start_epoch' = args'.iteration \div args.train_iters_per_epoch
            /\ start_iteration' = args'.iteration % args.train_iters_per_epoch
            /\ epoch' = start_epoch'
            /\ events' = Append(events, Ev("_train", start_epoch',
                                           start_iteration', args'.iteration))
            /\ pc' = "epoch_head"
    /\ UNCHANGED <<provider, train_dataset, train_dataloader,
                   valid_dataloader, end_of_epoch_callback, model,
                   loaded_module, checkpoint_iteration, iteration_>>
    /\ UNCHANGED <<skipped_iter, avg_lm_loss, sampler_epoch>>
    /\ UNCHANGED <<shardVars, cyclerVars, workerVars>>

\* _train, lines 144-148: next value of range(start_epoch, args.epochs).
EpochHead ==
    /\ pc = "epoch_head"
    /\ IF epoch < args.epochs
       THEN /\ sampler_epoch' = SamplerSeed(args.seed, epoch)
            /\ events' = Append(events, Ev("set_epoch", epoch, -1, args.iteration))
            /\ iteration_' = -1
            /\ pc' = "batch"
       ELSE /\ pc' = "done"
            /\ UNCHANGED <<events, iteration_, sampler_epoch>>
    /\ UNCHANGED <<args, provider, train_dataset, train_dataloader,
                   valid_dataloader, end_of_epoch_callback, model,
                   loaded_module, checkpoint_iteration, epoch, start_epoch,
                   start_iteration, total_lm_loss>>
    /\ UNCHANGED <<skipped_iter, avg_lm_loss, losses>>
    /\ UNCHANGED <<shardVars, cyclerVars, workerVars>>

\* _train, lines 151-157: draw the next batch; skip it while its index is
\* below start_iteration.
NextBatch ==
    /\ pc = "batch"
    /\ IF iteration_ + 1 < train_dataloader.len
       THEN /\ iteration_' = iteration_ + 1
            /\ IF SkipBatch(iteration_', start_iteration)
               THEN /\ events' = Append(events, Ev("skip_batch", epoch, iteration_',
                                                   args.iteration))
                    /\ pc' = "batch"
                    /\ UNCHANGED start_iteration
               ELSE /\ start_iteration' = 0
                    /\ UNCHANGED events
                    /\ pc' = "train_step"
       ELSE /\ pc' = "epoch_save"
            /\ UNCHANGED <<iteration_, start_iteration, events>>
    /\ UNCHANGED <<args, provider, train_dataset, train_dataloader,
                   valid_dataloader, end_of_epoch_callback, model,
                   loaded_module, checkpoint_iteration, epoch, start_epoch,
                   total_lm_loss>>
    /\ UNCHANGED <<skipped_iter, avg_lm_loss, losses, sampler_epoch>>
    /\ UNCHANGED <<shardVars, cyclerVars, workerVars>>

\* _train, lines 160-163.
TrainStep ==
    /\ pc = "train_step"
    /\ \E lm_loss \in Losses, skipped \in 0..1 :
          /\ skipped_iter' = skipped
          /\ total_lm_loss' = Accumulate(total_lm_loss, lm_loss, skipped)
          /\ losses' = Append(losses, lm_loss)
    /\ args' = [args EXCEPT !.iteration = NextIteration(args.iteration)]
    /\ events' = Append(events, Ev("train_step", epoch, iteration_,
                                   args'.iteration))
    /\ pc' = "log"
    /\ UNCHANGED <<provider, train_dataset, train_dataloader,
                   valid_dataloader, end_of_epoch_callback, model,
                   loaded_module, checkpoint_iteration, epoch, iteration_,
                   start_epoch, start_iteration>>
    /\ UNCHANGED <<avg_lm_loss, sampler_epoch>>
    /\ UNCHANGED <<shardVars, cyclerVars, workerVars>>

\* _train, lines 166-173.
Logging ==
    /\ pc = "log"
    /\ IF args.log_interval = 0
       THEN \* line 166: `%` raises on None and on 0
            /\ pc' = "error"
            /\ UNCHANGED <<events, total_lm_loss, avg_lm_loss>>
       ELSE /\ IF ShouldLog(args)
               THEN /\ avg_lm_loss' = [num |-> total_lm_loss,
                                       den |-> args.log_interval]
                    /\ Emit("report_iteration_metrics")
                    /\ total_lm_loss' = 0
               ELSE UNCHANGED <<events, total_lm_loss, avg_lm_loss>>
            /\ pc' = "checkpoint"
    /\ UNCHANGED <<args, provider, train_dataset, train_dataloader,
                   valid_dataloader, end_of_epoch_callback, model,
                   loaded_module, checkpoint_iteration, epoch, iteration_,
                   start_epoch, start_iteration>>
    /\ UNCHANGED <<skipped_iter, losses, sampler_epoch>>
    /\ UNCHANGED <<shardVars, cyclerVars, workerVars>>

\* _train, lines 166-172: report_iteration_metrics raises; nothing catches
\* the error, so it leaves _train and finetune.
ReportFails ==
    /\ pc = "log"
    /\ args.log_interval # 0
    /\ ShouldLog(args)
    /\ avg_lm_loss' = [num |-> total_lm_loss, den |-> args.log_interval]
    /\ Emit("report_iteration_metrics_failed")
    /\ pc' = "error"
    /\ UNCHANGED <<args, provider, train_dataset, train_dataloader,
                   valid_dataloader, end_of_epoch_callback, model,
                   loaded_module, checkpoint_iteration, epoch, iteration_,
                   start_epoch, start_iteration, total_lm_loss>>
    /\ UNCHANGED <<skipped_iter, losses, sampler_epoch>>
    /\ UNCHANGED <<shardVars, cyclerVars, workerVars>>

\* _train, lines 176-177.
IntervalCheckpoint ==
    /\ pc = "checkpoint"
    /\ IF ShouldSave(args)
       THEN Emit("save_checkpoint")
       ELSE UNCHANGED events
    /\ pc' = "evaluate"
    /\ UNCHANGED <<args, provider, train_dataset, train_dataloader,
                   valid_dataloader, end_of_epoch_callback, model,
                   loaded_module, checkpoint_iteration, epoch, iteration_,
                   start_epoch, start_iteration, total_lm_loss>>
    /\ UNCHANGED <<skipped_iter, avg_lm_loss, losses, sampler_epoch>>
    /\ UNCHANGED <<shardVars, cyclerVars, workerVars>>

\* _train, lines 180-183.
Evaluation ==
    /\ pc = "evaluate"
    /\ IF ShouldEval(args)
       THEN Emit("evaluate_and_print_results")
       ELSE UNCHANGED events
    /\ pc' = "batch"
    /\ UNCHANGED <<args, provider, train_dataset, train_dataloader,
                   valid_dataloader, end_of_epoch_callback, model,
                   loaded_module, checkpoint_iteration, epoch, iteration_,
                   start_epoch, start_iteration, total_lm_loss>>
    /\ UNCHANGED <<skipped_iter, avg_lm_loss, losses, sampler_epoch>>
    /\ UNCHANGED <<shardVars, cyclerVars, workerVars>>

\* _train, lines 186-187.
EpochCheckpoint ==
    /\ pc = "epoch_save"
    /\ IF ShouldSaveAtEpochEnd(args)
       THEN Emit("save_checkpoint_epoch")
       ELSE UNCHANGED events
    /\ pc' = "epoch_callback"
    /\ UNCHANGED <<args, provider, train_dataset, train_dataloader,
                   valid_dataloader, end_of_epoch_callback, model,
                   loaded_module, checkpoint_iteration, epoch, iteration_,
                   start_epoch, start_iteration, total_lm_loss>>
    /\ UNCHANGED <<skipped_iter, avg_lm_loss, losses, sampler_epoch>>
    /\ UNCHANGED <<shardVars, cyclerVars, workerVars>>

\* _train, lines 190-191, then the epoch loop advances.
EpochCallback ==
    /\ pc = "epoch_callback"
    /\ IF end_of_epoch_callback
       THEN events' = Append(events, Ev("end_of_epoch_callback",
                                        CallbackEpoch(epoch), iteration_,
                                        args.iteration))
       ELSE UNCHANGED events
    /\ epoch' = epoch + 1
    /\ pc' = "epoch_head"
    /\ UNCHANGED <<args, provider, train_dataset, train_dataloader,
                   valid_dataloader, end_of_epoch_callback, model,
                   loaded_module, checkpoint_iteration, iteration_,
                   start_epoch, start_iteration, total_lm_loss>>
    /\ UNCHANGED <<skipped_iter, avg_lm_loss, losses, sampler_epoch>>
    /\ UNCHANGED <<shardVars, cyclerVars, workerVars>>

Next ==
    \/ BuildDataloaders
    \/ BuildCallback
    \/ SetupModel
    \/ SkipLoad
    \/ LoadCheckpoint
    \/ LoadCheckpointFails
    \/ EvaluateOnly
    \/ TrainInit
    \/ EpochHead
    \/ NextBatch
    \/ TrainStep
    \/ Logging
    \/ ReportFails
    \/ IntervalCheckpoint
    \/ Evaluation
    \/ EpochCheckpoint
    \/ EpochCallback

Spec == Init /\ [][Next]_vars

\* _train from its entry: finetune has built the loaders, the callback and
\* the model, loaded nothing, and is about to call _train (line 245).
InitTrain ==
    /\ train_dataset \in 0..MaxTrainLen
    /\ \E ep \in 1..MaxEpochs, li \in Intervals, si \in Intervals,
          ei \in Intervals, sv \in BOOLEAN :
          args = [epochs |-> ep, batch_size |-> BatchSize,
                  log_interval |-> li, save_interval |-> si,
                  eval_interval |-> ei, save |-> sv, load |-> FALSE,
                  fp16 |-> FALSE, seed |-> MaxSeed, iteration |-> 0,
                  train_iters_per_epoch |->
                      ItersPerEpoch(train_dataset, BatchSize),
                  train_iters |->
                      ep * ItersPerEpoch(train_dataset, BatchSize)]
    /\ provider \in BOOLEAN
    /\ pc = "dispatch"
    /\ train_dataloader =
          build_data_loader(train_dataset, BatchSize, TrainDropLast)
    /\ valid_dataloader = [built |-> TRUE, len |-> 0]
    /\ end_of_epoch_callback = provider
    /\ model = TorchDDP(RawModule)
    /\ loaded_module = NoModule
    /\ checkpoint_iteration = 0
    /\ epoch = 0
    /\ iteration_ = -1
    /\ start_epoch = 0
    /\ start_iteration = 0
    /\ total_lm_loss = 0
    /\ skipped_iter = 0
    /\ avg_lm_loss = [num |-> 0, den |-> 1]
    /\ losses = <<>>
    /\ sampler_epoch = 0
    /\ events = <<Ev("build_dataloaders", -1, -1, 0)>>
    /\ ShardIdle
    /\ CyclerIdle
    /\ WorkersIdle

NextTrain ==
    \/ TrainInit
    \/ EpochHead
    \/ NextBatch
    \/ TrainStep
    \/ Logging
    \/ ReportFails
    \/ IntervalCheckpoint
    \/ Evaluation
    \/ EpochCheckpoint
    \/ EpochCallback

SpecTrain == InitTrain /\ [][NextTrain]_vars

\* The data-parallel replicas each build and iterate their loader.
FinetuneIdle ==
    /\ args = [epochs |-> 0, batch_size |-> BatchSize, log_interval |-> 0,
               save_interval |-> 0, eval_interval |-> 0, save |-> FALSE,
               load |-> FALSE, fp16 |-> FALSE, seed |-> MaxSeed,
               iteration |-> 0,
               train_iters_per_epoch |-> 0, train_iters |-> 0]
    /\ provider = FALSE
    /\ train_dataset = 0
    /\ pc = "idle"
    /\ train_dataloader = NoLoader
    /\ valid_dataloader = NoLoader
    /\ end_of_epoch_callback = FALSE
    /\ model = NoModule
    /\ loaded_module = NoModule
    /\ checkpoint_iteration = 0
    /\ epoch = 0
    /\ iteration_ = -1
    /\ start_epoch = 0
    /\ start_iteration = 0
    /\ total_lm_loss = 0
    /\ skipped_iter = 0
    /\ avg_lm_loss = [num |-> 0, den |-> 1]
    /\ losses = <<>>
    /\ sampler_epoch = 0
    /\ events = <<>>

NextShard ==
    \E rank \in 0..(sh_world - 1) :
        ShardIterate(rank) /\ UNCHANGED <<finetuneVars, cyclerVars, workerVars>>

InitShard == ShardStart /\ FinetuneIdle /\ CyclerIdle /\ WorkersIdle

SpecShard == InitShard /\ [][NextShard]_vars

NextCycler ==
    \/ CyclerDraw /\ UNCHANGED <<finetuneVars, shardVars, workerVars>>
    \/ CyclerYield /\ UNCHANGED <<finetuneVars, shardVars, workerVars>>
    \/ CyclerExhausted /\ UNCHANGED <<finetuneVars, shardVars, workerVars>>

InitCycler == CyclerStart /\ FinetuneIdle /\ ShardIdle /\ WorkersIdle

SpecCycler == InitCycler /\ [][NextCycler]_vars

\* Each data-parallel worker runs finetune on its own shard.
NextWorkers ==
    \/ \E r \in WorkerRanks :
          WorkerBuild(r) /\ UNCHANGED <<finetuneVars, shardVars, cyclerVars>>
    \/ \E r \in WorkerRanks :
          WorkerEpochHead(r) /\ UNCHANGED <<finetuneVars, shardVars, cyclerVars>>
    \/ \E r \in WorkerRanks :
          WorkerNextBatch(r) /\ UNCHANGED <<finetuneVars, shardVars, cyclerVars>>
    \/ \E r \in WorkerRanks :
          WorkerStep(r) /\ UNCHANGED <<finetuneVars, shardVars, cyclerVars>>
    \/ \E r \in WorkerRanks :
          WorkerIntervals(r) /\ UNCHANGED <<finetuneVars, shardVars, cyclerVars>>
    \/ \E r \in WorkerRanks :
          WorkerEpochEnd(r) /\ UNCHANGED <<finetuneVars, shardVars, cyclerVars>>

InitWorkers == WorkersStart /\ FinetuneIdle /\ ShardIdle /\ CyclerIdle

SpecWorkers == InitWorkers /\ [][NextWorkers]_vars

\* ================================================================= properties
TrainSteps == SelectSeq(events, LAMBDA e : e.op = "train_step")
Callbacks == SelectSeq(events, LAMBDA e : e.op = "end_of_epoch_callback")
Positions(ops) == {i \in DOMAIN events : events[i].op \in ops}
CountOp(op, g) ==
    Cardinality({i \in Positions({op}) : events[i].iteration = g})
IntervalOps == {"report_iteration_metrics", "save_checkpoint",
                "evaluate_and_print_results"}
SaveOps == {"save_checkpoint", "save_checkpoint_epoch"}
\* Steps whose logging, checkpointing and evaluation decisions are all taken.
CompletedSteps ==
    IF pc \in {"log", "checkpoint", "evaluate", "error"}
    THEN args.iteration - 1 ELSE args.iteration
\* Epochs whose boundary checkpoint decision has been taken.
SavedEpochs ==
    start_epoch..(IF pc = "epoch_callback" THEN epoch ELSE epoch - 1)
LoadFailed == Positions({"load_checkpoint_failed"}) # {}
PastLoad == pc \notin {"build_data", "build_callback", "setup_model", "load"}

\* C1: a run that loads a checkpoint recorded at iteration g > 0 executes
\* its first training step at intra-epoch index g % p of epoch g \div p and
\* counts that step as iteration g + 1, instead of starting again from
\* iteration 0 of epoch 0.
C1_ResumeFromCheckpoint ==
    LET g == checkpoint_iteration
        p == args.train_iters_per_epoch
    IN  (args.load /\ g > 0 /\ TrainSteps # <<>>) =>
            /\ TrainSteps[1].epoch = g \div p
            /\ TrainSteps[1].index = g % p
            /\ TrainSteps[1].iteration = g + 1

\* C2: for every completed step with post-increment counter g >= 1 a
\* metrics report is made at g iff g is a multiple of log_interval, an
\* interval checkpoint iff saving is on, save_interval is set and divides g,
\* an evaluation iff eval_interval is set and divides g; nothing is logged,
\* saved or evaluated at iteration 0.
C2_IntervalTriggering ==
    /\ \A g \in 1..CompletedSteps :
        /\ CountOp("report_iteration_metrics", g) =
             IF args.log_interval # 0 /\ g % args.log_interval = 0
             THEN 1 ELSE 0
        /\ CountOp("save_checkpoint", g) =
             IF args.save /\ args.save_interval # 0
                /\ g % args.save_interval = 0
             THEN 1 ELSE 0
        /\ CountOp("evaluate_and_print_results", g) =
             IF args.eval_interval # 0 /\ g % args.eval_interval = 0
             THEN 1 ELSE 0
    /\ \A i \in Positions(IntervalOps \cup SaveOps) : events[i].iteration >= 1

C2_Witness ==
    /\ pc = "done"
    /\ args.log_interval = 2 /\ args.save /\ args.save_interval = 1
    /\ args.eval_interval = 2
    /\ args.iteration >= 3
    /\ CountOp("report_iteration_metrics", 2) = 1
    /\ CountOp("report_iteration_metrics", 3) = 0
    /\ CountOp("save_checkpoint", 3) = 1
    /\ CountOp("evaluate_and_print_results", 2) = 1
    /\ CountOp("evaluate_and_print_results", 3) = 0

\* C3: with checkpointing enabled every completed epoch ends with exactly
\* one forced save, made after all of that epoch's steps and their interval
\* actions and carrying the iteration of the epoch's last step, whatever
\* save_interval is (an interval save at the same iteration is a second
\* save); with checkpointing disabled nothing is ever saved.
C3_EpochBoundaryCheckpoint ==
    /\ \A e \in SavedEpochs :
        LET forced == {i \in Positions({"save_checkpoint_epoch"}) :
                          events[i].epoch = e}
            inEpoch == {j \in Positions(IntervalOps \cup {"train_step"}) :
                          events[j].epoch = e}
        IN  /\ Cardinality(forced) = IF args.save THEN 1 ELSE 0
            /\ \A i \in forced :
                /\ \A j \in inEpoch : j < i
                /\ \E j \in inEpoch :
                      /\ events[j].op = "train_step"
                      /\ events[j].iteration = events[i].iteration
                      /\ \A k \in inEpoch :
                            events[k].iteration <= events[j].iteration
                /\ Cardinality({j \in Positions(SaveOps) :
                        events[j].iteration = events[i].iteration}) =
                     IF args.save_interval # 0
                        /\ events[i].iteration % args.save_interval = 0
                     THEN 2 ELSE 1
    /\ \A i \in Positions({"save_checkpoint_epoch"}) :
          events[i].epoch \in SavedEpochs
    /\ ~args.save => Positions(SaveOps) = {}

C3_Witness ==
    /\ args.save /\ args.save_interval = 2
    /\ args.train_iters_per_epoch = 2
    /\ pc = "epoch_callback"
    /\ CountOp("save_checkpoint", 2) = 1
    /\ CountOp("save_checkpoint_epoch", 2) = 1

\* C4: a supplied end-of-epoch callback is invoked exactly once per
\* completed epoch with that epoch's index, after the epoch's steps and its
\* boundary checkpoint and before any step of the next epoch; the indices
\* passed are start_epoch, start_epoch + 1, ... in order, up to epochs - 1
\* when the loop finishes.  Without a callback nothing is invoked.
C4_EndOfEpochCallback ==
    /\ Len(Callbacks) = IF provider THEN epoch - start_epoch ELSE 0
    /\ \A k \in DOMAIN Callbacks : Callbacks[k].epoch = start_epoch + k - 1
    /\ (pc = "done" /\ provider /\ args.epochs > 0) =>
          Len(Callbacks) = args.epochs - start_epoch
    /\ \A i \in Positions({"end_of_epoch_callback"}) :
        LET e == events[i].epoch
        IN  /\ \A j \in Positions({"train_step"}) :
                  /\ events[j].epoch <= e => j < i
                  /\ events[j].epoch > e => j > i
            /\ \A j \in Positions({"save_checkpoint_epoch"}) :
                  events[j].epoch = e => j < i
            /\ args.save => \E j \in Positions({"save_checkpoint_epoch"}) :
                  events[j].epoch = e /\ j < i
    /\ ~provider => Positions({"end_of_epoch_callback_predict"}) = {}

C4_Witness ==
    /\ pc = "done" /\ provider /\ args.save
    /\ args.epochs = 2
    /\ Len(Callbacks) = 2
    /\ Len(TrainSteps) >= 2

\* C5: with a zero epoch count no training step is run, no data loader is
\* built, no checkpoint is saved, and a finished run has invoked the
\* callback exactly once, with epoch -1 and output_predictions set, when a
\* provider was given and not at all otherwise.
C5_EvaluationOnly ==
    args.epochs = 0 =>
        /\ Positions({"train_step", "build_dataloaders", "set_epoch",
                      "end_of_epoch_callback"} \cup SaveOps) = {}
        /\ ~train_dataloader.built /\ ~valid_dataloader.built
        /\ \A i \in Positions({"end_of_epoch_callback_predict"}) :
              events[i].epoch = -1
        /\ Cardinality(Positions({"end_of_epoch_callback_predict"})) =
              IF pc = "done" /\ provider THEN 1 ELSE 0

C5_Witness ==
    /\ pc = "done" /\ args.epochs = 0 /\ provider
    /\ Positions({"end_of_epoch_callback_predict"}) # {}

\* The module at the bottom of a chain of wrappers.
RECURSIVE Innermost(_)
Innermost(m) ==
    IF m.kind \in {"LocalDDP", "TorchDDP", "FP16_Module"}
    THEN Innermost(m.module) ELSE m

\* C7 as stated: the object handed to load_checkpoint is the innermost raw
\* module of the handle.
C7_LoadsInnermostModule ==
    (args.load /\ PastLoad) => loaded_module = Innermost(model)

\* C7: for every handle with zero, one or two wrappers (replication over
\* precision over the raw module) the object handed to load_checkpoint is
\* the `model` attribute of the innermost raw module.
C7_LoadsModelOfInnermostModule ==
    (args.load /\ PastLoad) => loaded_module = Innermost(model).model

C7_Witness ==
    /\ args.load /\ PastLoad
    /\ model = TorchDDP(FP16_Module(RawModule))
    /\ loaded_module = InnerModel

\* C8: the master-parameter refresh is made exactly once when a load path
\* is configured, fp16 is on and load_checkpoint returned, directly after
\* the load and before any training step or callback; it is never made
\* without a load path, without fp16, or after a failed load.
C8_MasterParamsResync ==
    LET syncs == Positions({"model_params_to_master_params"})
    IN  /\ PastLoad =>
              Cardinality(syncs) =
                  IF args.load /\ args.fp16 /\ ~LoadFailed THEN 1 ELSE 0
        /\ ~PastLoad => syncs = {}
        /\ \A i \in syncs :
              /\ i > 1 /\ events[i - 1].op = "load_checkpoint"
              /\ \A j \in Positions({"train_step", "end_of_epoch_callback",
                                     "end_of_epoch_callback_predict"}) : i < j

C8_Witness ==
    /\ args.load /\ args.fp16
    /\ Positions({"model_params_to_master_params"}) # {}
    /\ TrainSteps # <<>>
    /\ Callbacks # <<>>

\* C10: at every epoch boundary args.iteration = (epoch + 1) *
\* train_iters_per_epoch, the boundary checkpoint and callback of epoch e
\* see (e + 1) * train_iters_per_epoch, inside an epoch args.iteration =
\* epoch * train_iters_per_epoch + the number of batches handled, and a
\* finished loop leaves args.iteration = epochs * train_iters_per_epoch =
\* args.train_iters.
C10_EpochBoundaryIteration ==
    LET p == args.train_iters_per_epoch
    IN  /\ pc \in {"epoch_save", "epoch_callback"} =>
              args.iteration = (epoch + 1) * p
        /\ pc \in {"log", "checkpoint", "evaluate"} =>
              args.iteration = epoch * p + iteration_ + 1
        /\ \A i \in Positions({"save_checkpoint_epoch",
                               "end_of_epoch_callback"}) :
              events[i].iteration = (events[i].epoch + 1) * p
        /\ (pc = "done" /\ args.epochs > 0) =>
              /\ args.iteration = args.epochs * p
              /\ args.iteration = args.train_iters

C10_Witness ==
    /\ pc = "done" /\ args.epochs = 2 /\ args.save /\ provider
    /\ args.train_iters_per_epoch >= 2
    /\ args.iteration = 2 * args.train_iters_per_epoch

\* ------------------------------------------------- further loop properties
ReportFailed == Positions({"report_iteration_metrics_failed"}) # {}
Reports ==
    Positions({"report_iteration_metrics", "report_iteration_metrics_failed"})

\* C11: an interval that is unset fires its action (metrics report, interval
\* checkpoint, evaluation) at no step, and the loop goes on through all the
\* remaining steps without raising.
C11_AbsentIntervalsNeverTrigger ==
    /\ args.log_interval = 0 => Reports = {}
    /\ args.save_interval = 0 => Positions({"save_checkpoint"}) = {}
    /\ args.eval_interval = 0 =>
          Positions({"evaluate_and_print_results"}) = {}
    /\ (/\ 0 \in {args.log_interval, args.save_interval, args.eval_interval}
        /\ args.train_iters_per_epoch > 0
        /\ ~ReportFailed) => pc # "error"

\* C12: a training step that signals a skipped iteration still advances
\* the iteration counter by exactly one and adds zero to the accumulated
\* loss.
C12_SkippedIterationAddsZero ==
    [][(pc = "train_step" /\ skipped_iter' = 1) =>
          /\ args'.iteration = args.iteration + 1
          /\ total_lm_loss' = total_lm_loss]_vars

\* C13: a failure of the metrics reporting collaborator at a log step does
\* not abort the training loop.
C13_ReportingFailuresNonFatal == ReportFailed => pc # "error"

\* The entry of _train into its epoch loop: its event carries start_epoch,
\* the skip offset and the starting iteration.
Entered == Positions({"_train"}) # {}
Entry == events[CHOOSE i \in Positions({"_train"}) : TRUE]
CountAt(op, e, i) ==
    Cardinality({k \in Positions({op}) :
                    events[k].epoch = e /\ events[k].index = i})
\* Index of the last batch of epoch e whose loop body has been left.
LastHandled(e) ==
    IF e < epoch THEN train_dataloader.len - 1
    ELSE IF pc \in {"epoch_head", "done"} THEN -1
    ELSE IF pc = "train_step" THEN iteration_ - 1
    ELSE iteration_

StepsBefore(k) == Cardinality({j \in Positions({"train_step"}) : j < k})
\* The iteration a resumed run starts from: the one its checkpoint records.
ResumedIteration ==
    IF Positions({"load_checkpoint"}) # {} THEN checkpoint_iteration ELSE 0

\* C16: the iteration counter goes up by exactly one right after each
\* training step and by nothing else, and every checkpoint, at an interval
\* or at an epoch boundary, records the number of training steps completed
\* so far plus the iteration the run was resumed from.
C16_CheckpointConsistency ==
    Entered =>
        /\ args.iteration = ResumedIteration + Len(TrainSteps)
        /\ \A k \in Positions({"train_step"}) :
              events[k].iteration = ResumedIteration + StepsBefore(k) + 1
        /\ \A k \in Positions(SaveOps) :
              events[k].iteration = ResumedIteration + StepsBefore(k)

RECURSIVE SumRange(_, _, _)
SumRange(seq, lo, hi) ==
    IF lo > hi THEN 0 ELSE seq[lo] + SumRange(seq, lo + 1, hi)
\* Iteration of the last completed metrics report before position k of the
\* history; the iteration the loop started from when there is none.
ReportedBefore(k) ==
    LET done == {j \in Positions({"report_iteration_metrics"}) : j < k}
    IN  IF done = {} THEN Entry.iteration
        ELSE events[CHOOSE j \in done : \A i \in done : i <= j].iteration
LastReport == CHOOSE k \in Reports : \A i \in Reports : i <= k

\* C17: at every metrics report the accumulator holds the sum of the losses
\* of the steps since the previous report (since the start of the loop for
\* the first one), these are log_interval steps, the reported mean is that
\* sum over log_interval, and the accumulator is zeroed by the report and by
\* nothing else.
C17_LossAccumulatorWindow ==
    Entered =>
        /\ total_lm_loss =
              SumRange(losses, ReportedBefore(Len(events) + 1) + 1,
                       Len(losses))
        /\ \A k \in Reports :
              events[k].iteration - ReportedBefore(k) = args.log_interval
        /\ Reports # {} =>
              avg_lm_loss =
                 [num |-> SumRange(losses, ReportedBefore(LastReport) + 1,
                                   events[LastReport].iteration),
                  den |-> args.log_interval]

C17_Witness ==
    /\ pc = "checkpoint"
    /\ args.log_interval = 2
    /\ Cardinality(Positions({"report_iteration_metrics"})) = 2
    /\ avg_lm_loss.num = 2 * MaxLoss
    /\ total_lm_loss = 0

\* Positions of the history that belong to epoch e of the loop.
SetEpochs(e) == {k \in Positions({"set_epoch"}) : events[k].epoch = e}
Draws(e) ==
    {k \in Positions({"skip_batch", "train_step"}) : events[k].epoch = e}

\* C18: for every epoch e the loop runs, the sampler's epoch is set to
\* seed + e exactly once, after the last batch of epoch e - 1 and before the
\* first batch of epoch e, and it stays that while the batches of e are drawn.
C18_PerEpochReseeding ==
    Entered =>
        /\ \A e \in start_epoch..(args.epochs - 1) :
              /\ Cardinality(SetEpochs(e)) =
                    IF e < epoch \/ (e = epoch /\ pc # "epoch_head")
                    THEN 1 ELSE 0
              /\ \A k \in SetEpochs(e) :
                    /\ \A d \in Draws(e) : k < d
                    /\ e > start_epoch => \A d \in Draws(e - 1) : d < k
        /\ pc \in {"batch", "train_step", "log", "checkpoint", "evaluate"}
              => sampler_epoch = args.seed + epoch

C18_Witness ==
    /\ pc = "train_step" /\ epoch = 1 /\ iteration_ = 0
    /\ sampler_epoch = args.seed + 1
    /\ Draws(0) # {}
    /\ Cardinality(Positions({"set_epoch"})) = 2

EpochsEntered ==
    LET heads == SelectSeq(events, LAMBDA e : e.op = "set_epoch")
    IN  [k \in DOMAIN heads |-> heads[k].epoch]

\* C19: with E > 0 epochs, a finite training stream of iters_per_epoch > 0
\* batches and collaborators that all return, _train does not raise; when it has finished it has entered
\* the epochs start_epoch .. E - 1 once each in order and, started from
\* iteration 0, has run E * iters_per_epoch training steps; nothing happens
\* after it has finished.
C19_Termination ==
    /\ (/\ args.epochs > 0
        /\ args.train_iters_per_epoch > 0
        /\ ~ReportFailed) => pc # "error"
    /\ pc = "done" =>
          /\ EpochsEntered =
                [k \in 1..(args.epochs - start_epoch) |-> start_epoch + k - 1]
          /\ Len(TrainSteps) = args.epochs * args.train_iters_per_epoch
          /\ ~ENABLED NextTrain

\* ------------------------------------------------------------ cycler properties
\* C6: the generator never lets StopIteration out, and for a finite loader
\* of L >= 1 batches its n-th draw is batch ((n - 1) mod L) of the loader.
C6_CyclerWrapAround ==
    /\ cy_pc # "raised"
    /\ Len(cy_stream) >= 1 =>
          \A n \in DOMAIN cy_out :
              cy_out[n] = cy_stream[((n - 1) % Len(cy_stream)) + 1]

C6_Witness ==
    /\ Len(cy_stream) >= 2
    /\ cy_stream[1] # cy_stream[2]
    /\ Len(cy_out) = 3 * Len(cy_stream)
    /\ cy_pc = "idle"

\* C20: with a loader of L >= 1 batches every draw of the generator gets
\* its batch after rebuilding the iterator at most once; with an empty
\* loader a draw neither returns a batch nor raises: the generator stays in
\* its loop, rebuilding the iterator.
C20_CyclerDrawTermination ==
    /\ Len(cy_stream) >= 1 =>
          /\ cy_rebuilds <= 1
          /\ (cy_pc = "running" /\ cy_rebuilds = 1) => ENABLED CyclerYield
    /\ (Len(cy_stream) = 0 /\ cy_started) =>
          /\ cy_pc = "running"
          /\ cy_out = <<>>
          /\ ENABLED CyclerExhausted

C20_Witness ==
    /\ Len(cy_stream) >= 1
    /\ cy_pc = "idle"
    /\ cy_rebuilds = 1
    /\ Len(cy_out) = Len(cy_stream) + 1

\* ------------------------------------------------------------ worker properties
\* Steps for which the worker has taken its interval decisions.
Processed(r) ==
    IF wk[r].pc = "intervals" THEN wk[r].iteration - 1 ELSE wk[r].iteration
IntervalFired(r, upto) ==
    {f \in wk[r].fired :
        f.op \in {"log", "save", "eval"} /\ f.iteration <= upto}

\* C14: the workers derive the same iters_per_epoch; a worker inside its
\* k-th gradient reduction has iteration k - 1 and has k completed steps
\* after it, and no two workers are more than one step apart; log, save and
\* evaluation fire at the same iterations on all workers; workers that have
\* finished have the same final iteration; and no worker waits in a
\* reduction that a worker that has ended never joins.
C14_WorkerLockstep ==
    \A r, q \in WorkerRanks :
        /\ (wk[r].pc # "build" /\ wk[q].pc # "build") =>
              wk[r].train_iters_per_epoch = wk[q].train_iters_per_epoch
        /\ wk[r].iteration =
              wk[r].entered - (IF wk[r].pc = "all_reduce" THEN 1 ELSE 0)
        /\ wk[r].entered - wk[q].entered \in {-1, 0, 1}
        /\ IntervalFired(r, Min(Processed(r), Processed(q))) =
              IntervalFired(q, Min(Processed(r), Processed(q)))
        /\ (wk[r].pc = "done" /\ wk[q].pc = "done") =>
              /\ wk[r].iteration = wk[q].iteration
              /\ wk[r].fired = wk[q].fired
        /\ ~(/\ wk[r].pc = "all_reduce"
             /\ wk[q].pc \in {"done", "error"}
             /\ wk[q].entered < wk[r].entered)

C14_Witness ==
    /\ wk_config.world = 2 /\ wk_config.dataset = 3
    /\ wk_config.batch_size = 1
    /\ \A r \in WorkerRanks :
          /\ wk[r].pc = "done"
          /\ wk[r].iteration = 2 * wk_config.epochs
          /\ \E f \in wk[r].fired : f.op = "eval"

\* ------------------------------------------------------------- shard properties
RECURSIVE Concat(_)
Concat(seqs) == IF seqs = <<>> THEN <<>> ELSE Head(seqs) \o Concat(Tail(seqs))
Range(f) == {f[x] : x \in DOMAIN f}
Ranks == 0..(sh_world - 1)
\* The dataset indices the replica of the given rank trains on in the epoch.
Slots(rank) == Concat(sh_batches[rank])
Assigned(rank) == Range(Slots(rank))
AllIndices == 0..(sh_dataset - 1)
Disjoint ==
    \A r1, r2 \in Ranks : r1 # r2 => Assigned(r1) \cap Assigned(r2) = {}
Injective(f) == \A x, y \in DOMAIN f : x # y => f[x] # f[y]

\* C9 as stated: once every replica has its shard, the replicas' index sets
\* are pairwise disjoint and their union is the whole index set.
C9_ShardsPartition ==
    sh_done = Ranks =>
        /\ Disjoint
        /\ UNION {Assigned(r) : r \in Ranks} = AllIndices

\* C9: once every replica has its shard, the union of the replicas' index
\* sets is the whole index set and every replica holds ceil(N / W) slots;
\* when W divides N the shards are pairwise disjoint and repeat no index,
\* otherwise W * ceil(N / W) - N slots repeat an index that is assigned
\* elsewhere.
C9_ShardsCover ==
    sh_done = Ranks =>
        /\ UNION {Assigned(r) : r \in Ranks} = AllIndices
        /\ \A r \in Ranks : Len(Slots(r)) = CeilDiv(sh_dataset, sh_world)
        /\ sh_dataset % sh_world = 0 =>
              Disjoint /\ \A r \in Ranks : Injective(Slots(r))
        /\ sh_dataset % sh_world # 0 =>
              \/ ~Disjoint
              \/ \E r \in Ranks : ~Injective(Slots(r))

C9_Witness ==
    /\ sh_done = Ranks
    /\ sh_dataset = 3 /\ sh_world = 2 /\ sh_batch = 2
    /\ ~Disjoint
====
